---- MODULE Spec2Model ----
(***************************************************************************)
(* Point-Cloud-Stream: the pipeline controller (pipeline_controller.py),   *)
(* its producer thread and CaptureGate, the depth-pick protocol, and the   *)
(* 2D-to-3D label fusion (utils/segmentation.py).                          *)
(*                                                                         *)
(* Threads: "ui" runs the controller's handlers one at a time; "producer"  *)
(* runs PipelineModel.run; the render subsystem runs depth callbacks.      *)
(* A handler that writes shared state more than once, or takes the         *)
(* CaptureGate mutex, is split at those points (ui_pc) so that the         *)
(* producer interleaves with it as the Python threads do.                  *)
(***************************************************************************)
EXTENDS Integers, Sequences, FiniteSets, TLC

(* ---------------------------------------------------------------- bounds *)
MaxSaveCalls == 2      \* on_save_pcd / on_save_rgbd invocations tracked
MaxPosted == 2         \* callbacks pending in the UI thread's post queue
MaxQueries == 1        \* depth-buffer queries in flight
MaxPoints == 2         \* points in the cloud
MaxMasks == 2          \* detections in a frame
FrameX == 1            \* pcdview.frame.x
FrameY == 1            \* pcdview.frame.y
FrameW == 2            \* pcdview.frame.width
FrameH == 2            \* pcdview.frame.height

(* ------------------------------------------------------------- constants *)
FarPlaneDepth == 1000  \* depth 1.0, in thousandths
None == "None"
IGNORED == "IGNORED"
HANDLED == "HANDLED"
NothingText == [kind |-> "nothing"]
NoText == [kind |-> "none"]
PyTrue == "True"

VARIABLES
  \* PipelineModel flags (CaptureFlags)
  flag_capture, flag_record, flag_exit, flag_save_pcd, flag_save_rgbd,
  flag_normals, flag_model_init,
  \* PipelineModel.cv_capture (CaptureGate): mutex owner and waiting threads
  cv_owner, cv_waiters,
  model_initializing,    \* inside PipelineModel.model_intialization()
  \* PipelineView state
  capturing, edit_mode, pcdview_on_mouse, toggle_record, view_flag_normals,
  flag_gui_init, mouse_coord, view_frame,
  \* PipelineController state
  drawing_rectangle,
  \* UI thread: position, argument and return value of the running handler
  ui_pc, ui_arg, ui_ret, last_op,
  \* producer thread: position
  p_pc,
  \* render subsystem: pending depth queries; UI post queue
  depth_queries, post_queue,
  \* history: save calls / save actions; producer parked when close began,
  \* when capture was last enabled; <<record-enabled, record control>> when
  \* on_toggle_capture was called; a depth callback raised
  n_save_pcd_calls, n_save_pcd_acts, n_save_rgbd_calls, n_save_rgbd_acts,
  parked_at_close, parked_at_enable, record_at_call, pick_raised,
  \* label fusion: input, output, position
  seg_in, seg_out, seg_pc

flags == <<flag_capture, flag_record, flag_exit, flag_save_pcd,
           flag_save_rgbd, flag_normals, flag_model_init>>
gate == <<cv_owner, cv_waiters>>
view == <<capturing, edit_mode, pcdview_on_mouse, toggle_record,
          view_flag_normals, flag_gui_init, mouse_coord, view_frame>>
uithread == <<ui_pc, ui_arg, ui_ret, last_op>>
producer == <<p_pc>>
render == <<depth_queries, post_queue>>
history == <<n_save_pcd_calls, n_save_pcd_acts, n_save_rgbd_calls,
             n_save_rgbd_acts, parked_at_close, parked_at_enable, record_at_call,
             pick_raised>>
seg == <<seg_in, seg_out, seg_pc>>
vars == <<flags, gate, model_initializing, view, drawing_rectangle, uithread,
          producer, render, history, seg>>

(* ------------------------------------------------------- input domains *)
MouseEventTypes == {"BUTTON_DOWN", "DRAG", "BUTTON_UP", "MOVE"}
\* window positions of pointer events: three corner pixels of the viewport
\* and one position beyond each of its four edges
MousePositions ==
  {<<FrameX, FrameY>>, <<FrameX + FrameW - 1, FrameY>>,
   <<FrameX, FrameY + FrameH - 1>>,
   <<FrameX - 1, FrameY>>, <<FrameX + FrameW, FrameY>>,
   <<FrameX, FrameY - 1>>, <<FrameX, FrameY + FrameH>>}
\* the handler reads the position of a BUTTON_DOWN only (lines 123-124):
\* the other types come at one position inside and one outside
MouseEvents ==
  {e \in [type : MouseEventTypes, ctrl : BOOLEAN, left : BOOLEAN,
          x : {p[1] : p \in MousePositions},
          y : {p[2] : p \in MousePositions}] :
     /\ <<e.x, e.y>> \in MousePositions
     /\ \/ e.type = "BUTTON_DOWN"
        \/ <<e.x, e.y>> \in {<<FrameX, FrameY>>, <<FrameX - 1, FrameY>>}}
\* depth images the render subsystem may return: shape = <<rows, cols>>, a
\* uniform depth value in thousandths
DepthShapes == {<<FrameH, FrameW>>, <<1, FrameW>>, <<FrameH, 1>>}
DepthValues == {500, FarPlaneDepth}
DepthImages == [shape : DepthShapes, value : DepthValues]

(* ---------------------------------------------------------------- Init *)
\* PipelineController.__init__: the model and the view are constructed, the
\* producer thread is started, the UI loop runs.  The view may be built
\* with or without a record control (toggle_record is None or a switch).
InitController ==
  /\ flag_capture = FALSE /\ flag_record = FALSE /\ flag_exit = FALSE
  /\ flag_save_pcd = FALSE /\ flag_save_rgbd = FALSE
  /\ flag_normals = FALSE /\ flag_model_init = FALSE
  /\ cv_owner = None /\ cv_waiters = {}
  /\ model_initializing = FALSE
  /\ capturing = FALSE /\ edit_mode = FALSE /\ pcdview_on_mouse = TRUE
  /\ toggle_record \in {None, "off"}
  /\ view_flag_normals = FALSE /\ flag_gui_init = FALSE
  /\ mouse_coord = [kind |-> "init"] /\ view_frame = None
  /\ drawing_rectangle = FALSE
  /\ ui_pc = "idle" /\ ui_arg = <<>> /\ ui_ret = None /\ last_op = None
  /\ p_pc = "loop"
  /\ depth_queries = <<>> /\ post_queue = <<>>
  /\ n_save_pcd_calls = 0 /\ n_save_pcd_acts = 0
  /\ n_save_rgbd_calls = 0 /\ n_save_rgbd_acts = 0
  /\ parked_at_close = FALSE /\ parked_at_enable = FALSE
  /\ record_at_call = <<FALSE, None>>
  /\ pick_raised = FALSE

(* ------------------------------------------------ CaptureGate primitives *)
\* threading.Condition: acquire / release of the underlying lock
Acquire(t) == cv_owner = None /\ cv_owner' = t
Release_keeps_lock(t) == cv_owner = t /\ cv_owner' = t
Release(t) == cv_owner = t /\ cv_owner' = None
\* Condition.notify(): wakes one waiting thread, if any
notify ==
  \/ cv_waiters = {} /\ cv_waiters' = cv_waiters
  \/ \E w \in cv_waiters : cv_waiters' = cv_waiters \ {w}
\* Condition.notify_all(): wakes every waiting thread
notify_all == cv_waiters' = {}

(* ------------------------------------------------------ UI thread: host *)
\* the host delivers an event to a handler only between handlers, and not
\* once the window has been closed
UiIdle == ui_pc = "idle" /\ ~flag_exit
Return(op, arg, ret) ==
  /\ ui_pc' = "idle" /\ ui_arg' = arg /\ ui_ret' = ret /\ last_op' = op

(* ------------------------------------------- UI thread: on_toggle_capture *)
\* lines 62-72: view flag, pointer-handler rewiring, model flag
on_toggle_capture_flags_handler_kept(is_on) ==
  /\ capturing' = is_on
  /\ pcdview_on_mouse' = pcdview_on_mouse
  /\ flag_capture' = is_on
on_toggle_capture_flags(is_on) ==
  /\ capturing' = is_on
  /\ pcdview_on_mouse' = ~is_on
  /\ flag_capture' = is_on

\* lines 82-84
on_toggle_record(is_enabled) == flag_record' = is_enabled

\* lines 73-76: the disabling branch
on_toggle_capture_off_keeps_record ==
  /\ flag_record' = flag_record
  /\ toggle_record' = toggle_record
on_toggle_capture_off ==
  /\ on_toggle_record(FALSE)
  /\ toggle_record' = IF toggle_record # None THEN "off" ELSE toggle_record

\* lines 77-79: the enabling branch, "with cv_capture: cv_capture.notify()"
on_toggle_capture_notify_skipped == cv_waiters' = cv_waiters
on_toggle_capture_notify == notify

ToggleCaptureCall(is_on) ==
  /\ UiIdle
  /\ on_toggle_capture_flags(is_on)
  /\ ui_pc' = IF is_on THEN "tc_lock" ELSE "tc_record"
  /\ ui_arg' = <<is_on>> /\ ui_ret' = None /\ last_op' = "on_toggle_capture"
  /\ record_at_call' = <<flag_record, toggle_record>>
  /\ parked_at_enable' = (is_on /\ "producer" \in cv_waiters)
  /\ UNCHANGED <<flag_record, flag_exit, flag_save_pcd, flag_save_rgbd,
                 flag_normals, flag_model_init, gate, model_initializing,
                 edit_mode, toggle_record, view_flag_normals, flag_gui_init,
                 mouse_coord, view_frame, drawing_rectangle, producer, render,
                 n_save_pcd_calls, n_save_pcd_acts, n_save_rgbd_calls,
                 n_save_rgbd_acts, parked_at_close, pick_raised,
                 seg>>

ToggleCaptureRecordOff ==
  /\ ui_pc = "tc_record"
  /\ on_toggle_capture_off
  /\ Return("on_toggle_capture", ui_arg, None)
  /\ UNCHANGED <<flag_capture, flag_exit, flag_save_pcd, flag_save_rgbd,
                 flag_normals, flag_model_init, gate, model_initializing,
                 capturing, edit_mode, pcdview_on_mouse, view_flag_normals,
                 flag_gui_init, mouse_coord, view_frame, drawing_rectangle,
                 producer, render, history, seg>>

ToggleCaptureLock ==
  /\ ui_pc = "tc_lock"
  /\ Acquire("ui")
  /\ ui_pc' = "tc_notify"
  /\ UNCHANGED <<flags, cv_waiters, model_initializing, view,
                 drawing_rectangle, ui_arg, ui_ret, last_op, producer, render,
                 history, seg>>

ToggleCaptureNotify ==
  /\ ui_pc = "tc_notify"
  /\ on_toggle_capture_notify
  /\ ui_pc' = "tc_unlock"
  /\ UNCHANGED <<flags, cv_owner, model_initializing, view,
                 drawing_rectangle, ui_arg, ui_ret, last_op, producer, render,
                 history, seg>>

ToggleCaptureUnlock ==
  /\ ui_pc = "tc_unlock"
  /\ Release("ui")
  /\ Return("on_toggle_capture", ui_arg, None)
  /\ UNCHANGED <<flags, cv_waiters, model_initializing, view,
                 drawing_rectangle, producer, render, history, seg>>

(* --------------------------------- UI thread: record, normals, save flags *)
ToggleRecord(is_enabled) ==
  /\ UiIdle
  /\ on_toggle_record(is_enabled)
  /\ Return("on_toggle_record", <<is_enabled>>, None)
  /\ UNCHANGED <<flag_capture, flag_exit, flag_save_pcd, flag_save_rgbd,
                 flag_normals, flag_model_init, gate, model_initializing,
                 view, drawing_rectangle, producer, render, history, seg>>

\* lines 86-90
on_toggle_normals(is_enabled) ==
  /\ flag_normals' = is_enabled
  /\ view_flag_normals' = is_enabled
  /\ flag_gui_init' = FALSE

ToggleNormals(is_enabled) ==
  /\ UiIdle
  /\ on_toggle_normals(is_enabled)
  /\ Return("on_toggle_normals", <<is_enabled>>, None)
  /\ UNCHANGED <<flag_capture, flag_record, flag_exit, flag_save_pcd,
                 flag_save_rgbd, flag_model_init, gate, model_initializing,
                 capturing, edit_mode, pcdview_on_mouse, toggle_record,
                 mouse_coord, view_frame, drawing_rectangle, producer, render,
                 history, seg>>

\* lines 99-101
on_save_pcd_sets_both ==
  /\ flag_save_pcd' = TRUE
  /\ flag_save_rgbd' = TRUE
on_save_pcd ==
  /\ flag_save_pcd' = TRUE
  /\ flag_save_rgbd' = flag_save_rgbd

\* lines 108-110
on_save_rgbd_sets_both ==
  /\ flag_save_rgbd' = TRUE
  /\ flag_save_pcd' = TRUE
on_save_rgbd ==
  /\ flag_save_rgbd' = TRUE
  /\ flag_save_pcd' = flag_save_pcd

SavePcd ==
  /\ UiIdle
  /\ n_save_pcd_calls < MaxSaveCalls
  /\ on_save_pcd
  /\ n_save_pcd_calls' = n_save_pcd_calls + 1
  /\ Return("on_save_pcd", <<>>, None)
  /\ UNCHANGED <<flag_capture, flag_record, flag_exit, flag_normals,
                 flag_model_init, gate, model_initializing, view,
                 drawing_rectangle, producer, render, n_save_pcd_acts,
                 n_save_rgbd_calls, n_save_rgbd_acts, parked_at_close,
                 parked_at_enable, record_at_call, pick_raised, seg>>

SaveRgbd ==
  /\ UiIdle
  /\ n_save_rgbd_calls < MaxSaveCalls
  /\ on_save_rgbd
  /\ n_save_rgbd_calls' = n_save_rgbd_calls + 1
  /\ Return("on_save_rgbd", <<>>, None)
  /\ UNCHANGED <<flag_capture, flag_record, flag_exit, flag_normals,
                 flag_model_init, gate, model_initializing, view,
                 drawing_rectangle, producer, render, n_save_pcd_calls,
                 n_save_pcd_acts, n_save_rgbd_acts, parked_at_close,
                 parked_at_enable, record_at_call, pick_raised, seg>>

(* -------------------------------------------- UI thread: on_window_close *)
\* line 94
on_window_close_flag == flag_exit' = TRUE
\* lines 95-96: "with cv_capture: cv_capture.notify_all()"
on_window_close_notify_skipped == cv_waiters' = cv_waiters
on_window_close_notify == notify_all
\* line 97
on_window_close_return == PyTrue

WindowCloseCall ==
  /\ UiIdle
  /\ on_window_close_flag
  /\ ui_pc' = "wc_lock"
  /\ ui_arg' = <<>> /\ ui_ret' = None /\ last_op' = "on_window_close"
  /\ parked_at_close' = ("producer" \in cv_waiters)
  /\ UNCHANGED <<flag_capture, flag_record, flag_save_pcd, flag_save_rgbd,
                 flag_normals, flag_model_init, gate, model_initializing,
                 view, drawing_rectangle, producer, render, n_save_pcd_calls,
                 n_save_pcd_acts, n_save_rgbd_calls, n_save_rgbd_acts,
                 parked_at_enable, record_at_call, pick_raised, seg>>

WindowCloseLock ==
  /\ ui_pc = "wc_lock"
  /\ Acquire("ui")
  /\ ui_pc' = "wc_notify"
  /\ UNCHANGED <<flags, cv_waiters, model_initializing, view,
                 drawing_rectangle, ui_arg, ui_ret, last_op, producer, render,
                 history, seg>>

WindowCloseNotify ==
  /\ ui_pc = "wc_notify"
  /\ on_window_close_notify
  /\ ui_pc' = "wc_unlock"
  /\ UNCHANGED <<flags, cv_owner, model_initializing, view,
                 drawing_rectangle, ui_arg, ui_ret, last_op, producer, render,
                 history, seg>>

WindowCloseUnlock ==
  /\ ui_pc = "wc_unlock"
  /\ Release("ui")
  /\ Return("on_window_close", <<>>, on_window_close_return)
  /\ UNCHANGED <<flags, cv_waiters, model_initializing, view,
                 drawing_rectangle, producer, render, history, seg>>

(* --------------------------------------- UI thread: on_toggle_model_init *)
\* line 104: model_intialization() runs on the calling thread
ModelInitCall_flag_first(is_enabled) ==
  /\ UiIdle
  /\ flag_model_init' = is_enabled
  /\ model_initializing' = TRUE
  /\ ui_pc' = "mi_running"
  /\ ui_arg' = <<is_enabled>> /\ ui_ret' = None
  /\ last_op' = "on_toggle_model_init"
  /\ UNCHANGED <<flag_capture, flag_record, flag_exit, flag_save_pcd,
                 flag_save_rgbd, flag_normals, gate, view, drawing_rectangle,
                 producer, render, history, seg>>
ModelInitCall(is_enabled) ==
  /\ UiIdle
  /\ model_initializing' = TRUE
  /\ ui_pc' = "mi_running"
  /\ ui_arg' = <<is_enabled>> /\ ui_ret' = None
  /\ last_op' = "on_toggle_model_init"
  /\ UNCHANGED <<flags, gate, view, drawing_rectangle, producer, render,
                 history, seg>>

ModelInitReturn ==
  /\ ui_pc = "mi_running"
  /\ model_initializing' = FALSE
  /\ ui_pc' = "mi_flag"
  /\ UNCHANGED <<flags, gate, view, drawing_rectangle, ui_arg, ui_ret,
                 last_op, producer, render, history, seg>>

\* line 106
on_toggle_model_init_flag(is_enabled) == flag_model_init' = is_enabled

ModelInitFlag ==
  /\ ui_pc = "mi_flag"
  /\ on_toggle_model_init_flag(ui_arg[1])
  /\ Return("on_toggle_model_init", ui_arg, None)
  /\ UNCHANGED <<flag_capture, flag_record, flag_exit, flag_save_pcd,
                 flag_save_rgbd, flag_normals, gate, model_initializing, view,
                 drawing_rectangle, producer, render, history, seg>>

(* ----------------------------------------- UI thread: _on_mouse_widget3d *)
\* lines 123-125: local coordinates and the viewport test
LocalX(event) == event.x - FrameX
LocalY(event) == event.y - FrameY
InViewport(x, y) == 0 <= x /\ x < FrameW /\ 0 <= y /\ y < FrameH

\* lines 112-167: the handler's result: its return value, the depth query it
\* issues (at most one) and the gesture state it leaves
MouseOutcome(ret, queries, drawing) ==
  [ret |-> ret, queries |-> queries, drawing |-> drawing]
on_mouse_widget3d_no_guard(event) ==
  IF /\ event.type = "BUTTON_DOWN" /\ event.ctrl /\ event.left
  THEN MouseOutcome(HANDLED,
         IF InViewport(LocalX(event), LocalY(event))
         THEN <<[x |-> LocalX(event), y |-> LocalY(event)]>> ELSE <<>>,
         drawing_rectangle)
  ELSE MouseOutcome(IGNORED, <<>>, drawing_rectangle)
on_mouse_widget3d_starts_drawing(event) ==
  IF capturing \/ ~edit_mode
  THEN MouseOutcome(IGNORED, <<>>, drawing_rectangle)
  ELSE IF /\ event.type = "BUTTON_DOWN" /\ event.ctrl /\ event.left
  THEN MouseOutcome(HANDLED,
         IF InViewport(LocalX(event), LocalY(event))
         THEN <<[x |-> LocalX(event), y |-> LocalY(event)]>> ELSE <<>>,
         TRUE)
  ELSE IF event.type = "DRAG" /\ drawing_rectangle
  THEN MouseOutcome(HANDLED, <<>>, drawing_rectangle)
  ELSE IF event.type = "BUTTON_UP" /\ drawing_rectangle
  THEN MouseOutcome(HANDLED, <<>>, FALSE)
  ELSE MouseOutcome(IGNORED, <<>>, drawing_rectangle)
on_mouse_widget3d(event) ==
  IF capturing THEN MouseOutcome(IGNORED, <<>>, drawing_rectangle)
  ELSE IF ~edit_mode THEN MouseOutcome(IGNORED, <<>>, drawing_rectangle)
  ELSE IF /\ event.type = "BUTTON_DOWN" /\ event.ctrl /\ event.left
  THEN MouseOutcome(HANDLED,
         IF InViewport(LocalX(event), LocalY(event))
         THEN <<[x |-> LocalX(event), y |-> LocalY(event)]>> ELSE <<>>,
         drawing_rectangle)
  ELSE IF event.type = "DRAG" /\ drawing_rectangle
  THEN MouseOutcome(HANDLED, <<>>, drawing_rectangle)
  ELSE IF event.type = "BUTTON_UP" /\ drawing_rectangle
  THEN MouseOutcome(HANDLED, <<>>, FALSE)
  ELSE MouseOutcome(IGNORED, <<>>, drawing_rectangle)

\* The view receives the handler both through its constructor (line 42) and
\* through pcdview.set_on_mouse (lines 66, 69); the handler guards against a
\* call while capturing itself (line 113), so it is callable in every UI
\* state.  line 152: render_to_depth_image(depth_callback) queues the query.
MouseEvent(event) ==
  LET r == on_mouse_widget3d(event) IN
  /\ UiIdle
  /\ Len(depth_queries) + Len(r.queries) <= MaxQueries
  /\ depth_queries' = depth_queries \o r.queries
  /\ drawing_rectangle' = r.drawing
  /\ Return("_on_mouse_widget3d", <<>>, r.ret)
  /\ UNCHANGED <<flags, gate, model_initializing, view, producer, post_queue,
                 history, seg>>

(* --------------------------------- render subsystem: depth_callback, post *)
\* camera.unproject(x, y, depth, width, height): a 3-component world
\* coordinate, here in units of 1/10000
unproject(x, y, depth, width, height) ==
  <<(2 * x + 1 - width) * 2500, (height - 1 - 2 * y) * 2500, depth * 10 - 5>>

\* "{:.3f}".format(v): v, in 1/10000, rounded to thousandths (ties to even)
Format3f(v) ==
  LET q == v \div 10
      r == v - 10 * q
  IN IF r < 5 THEN q
     ELSE IF r > 5 THEN q + 1
     ELSE IF q % 2 = 0 THEN q ELSE q + 1

\* numpy indexing depth_array[y, x]: an index outside [-n, n) raises
IndexInRange(i, n) == -n <= i /\ i < n

\* lines 130, 132-133: the coordinate check before the depth image is read
depth_in_image_swapped(x, y, depth_image) ==
  y < depth_image.shape[2] /\ x < depth_image.shape[1]
depth_in_image(x, y, depth_image) ==
  y < depth_image.shape[1] /\ x < depth_image.shape[2]

\* lines 127-143: [raised |-> an IndexError escaped, text |-> the label text]
depth_callback(x, y, depth_image) ==
  LET checked == depth_in_image(x, y, depth_image)
      depth == IF checked THEN depth_image.value ELSE FarPlaneDepth
  IN IF checked /\ ~(/\ IndexInRange(y, depth_image.shape[1])
                      /\ IndexInRange(x, depth_image.shape[2]))
     THEN [raised |-> TRUE, text |-> NoText]
     ELSE IF depth = FarPlaneDepth
     THEN [raised |-> FALSE, text |-> NothingText]
     ELSE LET world == unproject(x, y, depth, FrameW, FrameH) IN
          [raised |-> FALSE,
           text |-> [kind |-> "coord",
                     world |-> <<Format3f(world[1]), Format3f(world[2]),
                                 Format3f(world[3])>>]]

\* gui.Application.post_to_main_thread: the callback joins the UI thread's
\* queue
post_to_main_thread(callback) == post_queue' = Append(post_queue, callback)

\* lines 127-149 on a render-subsystem thread: the query completes with some
\* depth image; the label update is posted, never applied here
DepthCallback(depth_image) ==
  LET q == Head(depth_queries)
      r == depth_callback(q.x, q.y, depth_image)
  IN /\ depth_queries # <<>>
     /\ depth_queries' = Tail(depth_queries)
     /\ IF r.raised
        THEN pick_raised' = TRUE /\ post_queue' = post_queue
        ELSE /\ Len(post_queue) < MaxPosted
             /\ post_to_main_thread(
                  [kind |-> "update_label", text |-> r.text])
             /\ pick_raised' = pick_raised
     /\ UNCHANGED <<flags, gate, model_initializing, view, drawing_rectangle,
                    uithread, producer, n_save_pcd_calls, n_save_pcd_acts,
                    n_save_rgbd_calls, n_save_rgbd_acts, parked_at_close,
                    parked_at_enable, record_at_call, seg>>

\* the UI thread runs the next posted callback: update_label (lines 145-147)
\* or pipeline_view.update(frame_elements) (line 58)
RunPosted ==
  /\ UiIdle
  /\ post_queue # <<>>
  /\ post_queue' = Tail(post_queue)
  /\ IF Head(post_queue).kind = "update_label"
     THEN /\ mouse_coord' = Head(post_queue).text
          /\ view_frame' = view_frame
     ELSE /\ view_frame' = Head(post_queue).text
          /\ mouse_coord' = mouse_coord
  /\ UNCHANGED <<flags, gate, model_initializing, capturing, edit_mode,
                 pcdview_on_mouse, toggle_record, view_flag_normals,
                 flag_gui_init, drawing_rectangle, uithread, producer,
                 depth_queries, n_save_pcd_calls, n_save_pcd_acts,
                 n_save_rgbd_calls, n_save_rgbd_acts, parked_at_close,
                 parked_at_enable, record_at_call, pick_raised, seg>>

(* ------------------------------------------------ view: user interaction *)
\* the view switches its edit mode
SetEditMode(on) ==
  /\ UiIdle
  /\ edit_mode # on
  /\ edit_mode' = on
  /\ Return("edit_mode", <<on>>, None)
  /\ UNCHANGED <<flags, gate, model_initializing, capturing,
                 pcdview_on_mouse, toggle_record, view_flag_normals,
                 flag_gui_init, mouse_coord, view_frame, drawing_rectangle,
                 producer, render, history, seg>>

\* the user flips the record control; the view was given no record
\* callback (line 40), so no handler runs
UserFlipsRecordControl ==
  /\ UiIdle
  /\ toggle_record # None
  /\ toggle_record' = IF toggle_record = "on" THEN "off" ELSE "on"
  /\ Return("toggle_record", <<>>, None)
  /\ UNCHANGED <<flags, gate, model_initializing, capturing, edit_mode,
                 pcdview_on_mouse, view_flag_normals, flag_gui_init,
                 mouse_coord, view_frame, drawing_rectangle, producer, render,
                 history, seg>>

(* ------------------------------------------------------- producer thread *)
\* PipelineModel.run: while exit is not requested, process a frame (acting
\* on and clearing the one-shot save flags, delivering the frame), then
\* wait on the CaptureGate until capture is enabled or exit is requested.
ProducerStep(from, to) == p_pc = from /\ p_pc' = to

\* the loop condition: exit-requested is checked once per iteration
ProducerLoop ==
  /\ p_pc = "loop"
  /\ p_pc' = IF flag_exit THEN "done" ELSE "rgbd_read"
  /\ UNCHANGED <<flags, gate, model_initializing, view, drawing_rectangle,
                 uithread, render, history, seg>>

\* save-rgbd-once: read, act, clear
ProducerRgbdRead ==
  /\ p_pc = "rgbd_read"
  /\ p_pc' = IF flag_save_rgbd THEN "rgbd_act" ELSE "deliver"
  /\ UNCHANGED <<flags, gate, model_initializing, view, drawing_rectangle,
                 uithread, render, history, seg>>

ProducerRgbdAct ==
  /\ ProducerStep("rgbd_act", "rgbd_clear")
  /\ n_save_rgbd_acts' = n_save_rgbd_acts + 1
  /\ UNCHANGED <<flags, gate, model_initializing, view, drawing_rectangle,
                 uithread, render, n_save_pcd_calls, n_save_pcd_acts,
                 n_save_rgbd_calls, parked_at_close, parked_at_enable,
                 record_at_call, pick_raised, seg>>

ProducerRgbdClear ==
  /\ ProducerStep("rgbd_clear", "deliver")
  /\ flag_save_rgbd' = FALSE
  /\ UNCHANGED <<flag_capture, flag_record, flag_exit, flag_save_pcd,
                 flag_normals, flag_model_init, gate, model_initializing,
                 view, drawing_rectangle, uithread, render, history,
                 seg>>

\* update_view (lines 49-58), run on the producer thread: the view update is
\* posted to the UI thread; under backpressure the frame is skipped
\* lines 56-58 make no other write: the displayed frame is left as it is
update_view_applies_frame(frame_elements) ==
  /\ view_frame' = frame_elements
  /\ post_queue' = post_queue
update_view(frame_elements) ==
  /\ IF Len(post_queue) < MaxPosted
     THEN post_to_main_thread([kind |-> "update", text |-> frame_elements])
     ELSE post_queue' = post_queue
  /\ view_frame' = view_frame

ProducerDeliver ==
  /\ ProducerStep("deliver", "pcd_read")
  /\ update_view("frame")
  /\ UNCHANGED <<flags, gate, model_initializing, capturing, edit_mode,
                 pcdview_on_mouse, toggle_record, view_flag_normals,
                 flag_gui_init, mouse_coord, drawing_rectangle, uithread,
                 depth_queries, history, seg>>

\* save-pcd-once: read, act, clear
ProducerPcdRead ==
  /\ p_pc = "pcd_read"
  /\ p_pc' = IF flag_save_pcd THEN "pcd_act" ELSE "gate"
  /\ UNCHANGED <<flags, gate, model_initializing, view, drawing_rectangle,
                 uithread, render, history, seg>>

ProducerPcdAct ==
  /\ ProducerStep("pcd_act", "pcd_clear")
  /\ n_save_pcd_acts' = n_save_pcd_acts + 1
  /\ UNCHANGED <<flags, gate, model_initializing, view, drawing_rectangle,
                 uithread, render, n_save_pcd_calls,
                 n_save_rgbd_calls, n_save_rgbd_acts, parked_at_close,
                 parked_at_enable, record_at_call, pick_raised, seg>>

ProducerPcdClear ==
  /\ ProducerStep("pcd_clear", "gate")
  /\ flag_save_pcd' = FALSE
  /\ UNCHANGED <<flag_capture, flag_record, flag_exit, flag_save_rgbd,
                 flag_normals, flag_model_init, gate, model_initializing,
                 view, drawing_rectangle, uithread, render, history,
                 seg>>

\* "with cv_capture:" the producer takes the CaptureGate mutex
ProducerGateLock ==
  /\ ProducerStep("gate", "check")
  /\ Acquire("producer")
  /\ UNCHANGED <<flags, cv_waiters, model_initializing, view,
                 drawing_rectangle, uithread, render, history, seg>>

\* wait_for(capture-enabled or exit-requested): the predicate, evaluated
\* with the mutex held
GatePredicate == flag_capture \/ flag_exit

ProducerGateCheck ==
  /\ p_pc = "check"
  /\ p_pc' = IF GatePredicate THEN "unlock" ELSE "park"
  /\ UNCHANGED <<flags, gate, model_initializing, view, drawing_rectangle,
                 uithread, render, history, seg>>

\* Condition.wait(): the mutex is released and the thread joins the waiters
\* in one step
ProducerPark ==
  /\ ProducerStep("park", "parked")
  /\ Release("producer")
  /\ cv_waiters' = cv_waiters \cup {"producer"}
  /\ UNCHANGED <<flags, model_initializing, view, drawing_rectangle,
                 uithread, render, history, seg>>

\* a notified waiter re-acquires the mutex and re-evaluates the predicate
ProducerWake ==
  /\ ProducerStep("parked", "check")
  /\ "producer" \notin cv_waiters
  /\ Acquire("producer")
  /\ UNCHANGED <<flags, cv_waiters, model_initializing, view,
                 drawing_rectangle, uithread, render, history, seg>>

\* leaving the "with" block
ProducerGateUnlock ==
  /\ ProducerStep("unlock", "loop")
  /\ Release("producer")
  /\ UNCHANGED <<flags, cv_waiters, model_initializing, view,
                 drawing_rectangle, uithread, render, history, seg>>


(* ------------------------------------ label fusion: segment_pcd_from_2d *)
\* Scores are exact rationals: a detector score is an integer number of
\* tenths, a resized score a numerator over ResizedDen(H, W).
Threshold == 5         \* threshold = 0.5, in tenths
Unlabeled == 0 - 1     \* the sentinel the label array is initialised to

\* boolean-mask indexing t[mask]: the entries of t where mask is true, in
\* order
RECURSIVE MaskSelect(_, _)
MaskSelect(t, mask) ==
  IF t = <<>> THEN <<>>
  ELSE IF Head(mask) THEN <<Head(t)>> \o MaskSelect(Tail(t), Tail(mask))
  ELSE MaskSelect(Tail(t), Tail(mask))

\* torch.nonzero(mask).squeeze(1): the positions where mask is true
Nonzero(mask) == MaskSelect([i \in 1 .. Len(mask) |-> i], mask)

\* lines 34-43: one point through the extrinsic, homogeneous coordinate
\* dropped
PointCam(extrinsic, p) ==
  LET hom == <<p[1], p[2], p[3], 1>>
      row(r) == extrinsic[r][1] * hom[1] + extrinsic[r][2] * hom[2]
                + extrinsic[r][3] * hom[3] + extrinsic[r][4] * hom[4]
  IN <<row(1), row(2), row(3)>>

\* line 46
valid_depth_with_zero(point_cam) == point_cam[3] >= 0
valid_depth(point_cam) == point_cam[3] > 0

\* torch.round of n / d, d > 0: to the nearest integer, ties to even
RoundHalfEven(n, d) ==
  LET q == n \div d
      r == n - q * d
  IN IF 2 * r < d THEN q
     ELSE IF 2 * r > d THEN q + 1
     ELSE IF q % 2 = 0 THEN q ELSE q + 1

\* lines 51-61: <<u, v>> of a camera-frame point with z > 0
Project(intrinsic, point_cam) ==
  LET fx == intrinsic[1][1]
      fy == intrinsic[2][2]
      cx == intrinsic[1][3]
      cy == intrinsic[2][3]
      x == point_cam[1]
      y == point_cam[2]
      z == point_cam[3]
  IN <<RoundHalfEven(x * fx + cx * z, z), RoundHalfEven(y * fy + cy * z, z)>>

\* line 64
in_bounds_no_lower_v(uv, H, W) == uv[1] >= 0 /\ uv[1] < W /\ uv[2] < H
in_bounds(uv, H, W) == uv[1] >= 0 /\ uv[1] < W /\ uv[2] >= 0 /\ uv[2] < H

\* lines 18-23: bilinear interpolation, align_corners = False, along one
\* axis: output index i (from 0) reads input indices i0, i1 (from 0) with
\* weights w0, w1 over 2 * out
BilinearAxis(i, in, out) ==
  LET num == (2 * i + 1) * in - out
      src == IF num < 0 THEN 0 ELSE num
      i0 == src \div (2 * out)
      i1 == IF i0 < in - 1 THEN i0 + 1 ELSE i0
      w1 == src - i0 * (2 * out)
  IN [i0 |-> i0, i1 |-> i1, w0 |-> 2 * out - w1, w1 |-> w1]

ResizedDen(H, W) == 4 * H * W
\* masks_resized[k, v, u], as a numerator over ResizedDen(H, W) tenths
ResizedAt(mask, v, u, H, W) ==
  LET ay == BilinearAxis(v, Len(mask), H)
      ax == BilinearAxis(u, Len(mask[1]), W)
  IN   ay.w0 * ax.w0 * mask[ay.i0 + 1][ax.i0 + 1]
     + ay.w0 * ax.w1 * mask[ay.i0 + 1][ax.i1 + 1]
     + ay.w1 * ax.w0 * mask[ay.i1 + 1][ax.i0 + 1]
     + ay.w1 * ax.w1 * mask[ay.i1 + 1][ax.i1 + 1]

\* tensor indexing: an index in [-n, 0) counts from the end
WrapIndex(i, n) == IF i < 0 THEN i + n ELSE i
IndexOk(i, n) == 0 - n <= i /\ i < n

\* line 73, torch.max(mask_values, dim=0) for one column: the maximum and
\* the first index attaining it
MaxOver_last_index(column) ==
  LET best == CHOOSE k \in 1 .. Len(column) :
                /\ \A j \in 1 .. Len(column) : column[j] <= column[k]
                /\ \A j \in (k + 1) .. Len(column) : column[j] < column[k]
  IN [score |-> column[best], id |-> best]
MaxOver(column) ==
  LET best == CHOOSE k \in 1 .. Len(column) :
                /\ \A j \in 1 .. Len(column) : column[j] <= column[k]
                /\ \A j \in 1 .. (k - 1) : column[j] < column[k]
  IN [score |-> column[best], id |-> best]

\* line 75
valid_mask_at_threshold(score, H, W) == score >= Threshold * ResizedDen(H, W)
valid_mask(score, H, W) == score > Threshold * ResizedDen(H, W)

\* lines 77-78: point_labels = full((N,), -1); point_labels[idx] = values
scatter_labels_unmapped(N, idx, values) ==
  [i \in 1 .. N |-> IF i <= Len(values) THEN values[i] ELSE Unlabeled]
scatter_labels(N, idx, values) ==
  [i \in 1 .. N |->
     IF \E j \in 1 .. Len(idx) : idx[j] = i
     THEN values[CHOOSE j \in 1 .. Len(idx) : idx[j] = i]
     ELSE Unlabeled]

Raised == [raised |-> TRUE, labels |-> <<>>]

\* lines 8-82.  in.masks and in.cls are the detector's output (res[0]), the
\* others the function's arguments.
segment_pcd_from_2d(in) ==
  LET H == in.color_shape[1]
      W == in.color_shape[2]
      K == Len(in.masks)
      N == Len(in.points)
      points_cam_all == [i \in 1 .. N |-> PointCam(in.extrinsic, in.points[i])]
      depth_ok == [i \in 1 .. N |-> valid_depth(points_cam_all[i])]
      points_cam == MaskSelect(points_cam_all, depth_ok)
      indices_depth == Nonzero(depth_ok)
      uv_all == [j \in 1 .. Len(points_cam) |->
                   Project(in.intrinsic, points_cam[j])]
      bounds_ok == [j \in 1 .. Len(uv_all) |-> in_bounds(uv_all[j], H, W)]
      uv == MaskSelect(uv_all, bounds_ok)
      indices == MaskSelect(indices_depth, bounds_ok)
      index_error == \E j \in 1 .. Len(uv) :
                       ~(IndexOk(uv[j][1], W) /\ IndexOk(uv[j][2], H))
      mask_values(j) ==
        [k \in 1 .. K |->
           ResizedAt(in.masks[k], WrapIndex(uv[j][2], H),
                     WrapIndex(uv[j][1], W), H, W)]
      maxima == [j \in 1 .. Len(uv) |-> MaxOver(mask_values(j))]
      score_ok == [j \in 1 .. Len(uv) |-> valid_mask(maxima[j].score, H, W)]
      valid_indices == MaskSelect(indices, score_ok)
      values == MaskSelect([j \in 1 .. Len(uv) |-> in.cls[maxima[j].id]],
                           score_ok)
  IN IF index_error THEN Raised                \* line 72: IndexError
     ELSE IF K = 0 THEN Raised                 \* line 73: max() over no masks
     ELSE [raised |-> FALSE,
           labels |-> scatter_labels(N, valid_indices, values)]

(* -------------------------------------------------------- specifications *)
\* The handlers fall into groups that share no variable with one another
\* but the UI thread's own position: each specification composes the
\* threads with the handlers that read or write what its properties are
\* about.

\* on_toggle_capture, in its steps
ToggleCapture ==
  \/ \E is_on \in BOOLEAN : ToggleCaptureCall(is_on)
  \/ ToggleCaptureRecordOff
  \/ ToggleCaptureLock
  \/ ToggleCaptureNotify
  \/ ToggleCaptureUnlock

\* on_window_close, in its steps
WindowClose ==
  \/ WindowCloseCall
  \/ WindowCloseLock
  \/ WindowCloseNotify
  \/ WindowCloseUnlock

\* the producer's loop without the save actions (enabled only once a save
\* flag has been set)
ProducerLoopSteps ==
  \/ ProducerLoop
  \/ ProducerRgbdRead
  \/ ProducerDeliver
  \/ ProducerPcdRead
  \/ ProducerGateLock
  \/ ProducerGateCheck
  \/ ProducerPark
  \/ ProducerWake
  \/ ProducerGateUnlock

ProducerSaveSteps ==
  \/ ProducerRgbdAct
  \/ ProducerRgbdClear
  \/ ProducerPcdAct
  \/ ProducerPcdClear

InitSegIdle == seg_in = <<>> /\ seg_out = <<>> /\ seg_pc = "idle"
Init == InitController /\ InitSegIdle

\* capture control: capture / record / close against the producer's gate
Next ==
  \/ ToggleCapture
  \/ \E is_enabled \in BOOLEAN : ToggleRecord(is_enabled)
  \/ UserFlipsRecordControl
  \/ WindowClose
  \/ ProducerLoopSteps
  \/ RunPosted
Spec == Init /\ [][Next]_vars

\* the pass-through and one-shot flags against the producer's polling
FlagNext ==
  \/ ToggleCapture
  \/ \E is_enabled \in BOOLEAN : ToggleNormals(is_enabled)
  \/ SavePcd
  \/ SaveRgbd
  \/ \E is_enabled \in BOOLEAN : ModelInitCall(is_enabled)
  \/ ModelInitReturn
  \/ ModelInitFlag
  \/ ProducerLoopSteps
  \/ ProducerSaveSteps
  \/ RunPosted
FlagSpec == Init /\ [][FlagNext]_vars

\* the pick gesture: pointer events, depth queries, posted label updates
PickNext ==
  \/ ToggleCapture
  \/ \E on \in BOOLEAN : SetEditMode(on)
  \/ \E event \in MouseEvents : MouseEvent(event)
  \/ \E depth_image \in DepthImages : DepthCallback(depth_image)
  \/ RunPosted
PickSpec == Init /\ [][PickNext]_vars

\* the two off-thread callers of the post primitive, the producer's frame
\* delivery and the depth-pick completion, against the UI thread that runs
\* what they post; of the pointer events, a handled button-down inside the
\* viewport and one outside
PointerDowns ==
  {e \in MouseEvents :
     /\ e.type = "BUTTON_DOWN" /\ e.ctrl /\ e.left
     /\ <<e.x, e.y>> \in {<<FrameX, FrameY>>, <<FrameX - 1, FrameY>>}}
PostNext ==
  \/ ToggleCapture
  \/ \E on \in BOOLEAN : SetEditMode(on)
  \/ \E event \in PointerDowns : MouseEvent(event)
  \/ \E depth_image \in DepthImages : DepthCallback(depth_image)
  \/ ProducerLoopSteps
  \/ RunPosted
PostSpec == Init /\ [][PostNext]_vars

\* Scheduling: a started handler runs on and the producer thread keeps
\* running (weak fairness); a thread waiting for the CaptureGate mutex gets
\* it if it is free again and again (strong fairness).  No fairness is
\* assumed of the user: events may stop arriving.
ProducerRuns ==
  \/ ProducerLoop
  \/ ProducerRgbdRead
  \/ ProducerDeliver
  \/ ProducerPcdRead
  \/ ProducerGateCheck
  \/ ProducerPark
  \/ ProducerGateUnlock
HandlerRuns ==
  \/ ToggleCaptureRecordOff
  \/ ToggleCaptureNotify
  \/ ToggleCaptureUnlock
  \/ WindowCloseNotify
  \/ WindowCloseUnlock
Fairness ==
  /\ WF_vars(ProducerRuns)
  /\ WF_vars(HandlerRuns)
  /\ SF_vars(ProducerGateLock)
  /\ SF_vars(ProducerWake)
  /\ SF_vars(ToggleCaptureLock)
  /\ SF_vars(WindowCloseLock)
FairSpec == Spec /\ Fairness

(* ------------------------------------------------------------------ C1 *)
\* C1: once on_toggle_capture(False) has returned, record-enabled is false
\* and the record control, if the view has one, reads off - whatever
\* record-enabled and the control were when the handler was called.
CaptureOffReturned ==
  ui_pc = "idle" /\ last_op = "on_toggle_capture" /\ ui_arg = <<FALSE>>
C1_CaptureOffClearsRecord ==
  CaptureOffReturned => flag_record = FALSE /\ toggle_record \in {None, "off"}
\* capture was switched off while record-enabled was true and the control on
C1_Witness == CaptureOffReturned /\ record_at_call = <<TRUE, "on">>

(* ------------------------------------------------------------------ C2 *)
\* the producer is in the gate's wait, not notified
Parked == p_pc = "parked" /\ "producer" \in cv_waiters
\* the producer is parked and on_toggle_capture(True) has written the flag
ParkedAtEnable == Parked /\ flag_capture /\ ~flag_exit
\* the producer is in a loop iteration, about to read the flags
InIteration == p_pc = "rgbd_read"
C3_ParkedProducerExits ==
  /\ [](parked_at_close =>
          p_pc \in {"parked", "check", "unlock", "loop", "done"})
  /\ (parked_at_close ~> p_pc = "done")
  /\ [](ui_pc = "idle" /\ last_op = "on_window_close" => ui_ret = PyTrue)
\* the window was closed over a parked producer, which has terminated
C3_Witness ==
  parked_at_close /\ p_pc = "done" /\ ui_pc = "idle" /\ ui_ret = PyTrue

(* ------------------------------------------------------------------ C4 *)
\* C4: for each one-shot save flag, the producer has performed at most as
\* many save actions as on_save calls were made so far.
C4_AtMostOneSavePerCall ==
  /\ n_save_pcd_acts <= n_save_pcd_calls
  /\ n_save_rgbd_acts <= n_save_rgbd_calls
\* both kinds of save have been performed, one of them for two calls
C4_Witness ==
  /\ n_save_pcd_acts = 1 /\ n_save_pcd_calls = 2 /\ ~flag_save_pcd
  /\ n_save_rgbd_acts = 1

(* ------------------------------------------------------------------ C9 *)
\* (x, y) lies outside the depth image
OutsideImage(x, y, depth_image) ==
  ~(0 <= y /\ y < depth_image.shape[1] /\ 0 <= x /\ x < depth_image.shape[2])
NoHit(x, y, depth_image) ==
  OutsideImage(x, y, depth_image) \/ depth_image.value = FarPlaneDepth
\* C9: a completing depth query posts "no hit" exactly when its pixel is
\* outside the returned depth image or the sampled depth is the far plane,
\* and otherwise the three formatted components of the unprojected point;
\* the posted text is what the UI thread then shows; no callback raises.
C9_PickResult ==
  /\ [][\A depth_image \in DepthImages :
          DepthCallback(depth_image) =>
            LET q == Head(depth_queries)
                posted == post_queue'[Len(post_queue')]
                world == unproject(q.x, q.y, depth_image.value, FrameW, FrameH)
            IN /\ Len(post_queue') = Len(post_queue) + 1
               /\ posted.kind = "update_label"
               /\ NoHit(q.x, q.y, depth_image) => posted.text = NothingText
               /\ ~NoHit(q.x, q.y, depth_image) =>
                    /\ posted.text.kind = "coord"
                    /\ posted.text.world =
                         <<Format3f(world[1]), Format3f(world[2]),
                           Format3f(world[3])>>]_vars
  /\ [][RunPosted /\ Head(post_queue).kind = "update_label" =>
          mouse_coord' = Head(post_queue).text]_vars
  /\ [](~pick_raised)
\* a "no hit" has been shown and a world coordinate is on its way
C9_Witness ==
  /\ mouse_coord = NothingText
  /\ post_queue # <<>> /\ Head(post_queue).text.kind = "coord"

(* ----------------------------------------------------------------- C10 *)
\* C10: a pointer event handled while the view is capturing, or while it
\* is not in edit mode, returns IGNORED, issues no depth query and leaves
\* the gesture state and the flags as they were.
C10_IgnoredUnlessEditing ==
  [][(capturing \/ ~edit_mode) =>
       \/ /\ ui_ret' = IGNORED
          /\ UNCHANGED <<depth_queries, drawing_rectangle, flags>>
       \/ ~(\E event \in MouseEvents : MouseEvent(event))]_vars
\* the handler has just ignored an event while capturing, in edit mode
C10_Witness ==
  /\ ui_pc = "idle" /\ last_op = "_on_mouse_widget3d" /\ ui_ret = IGNORED
  /\ capturing /\ edit_mode

(* ----------------------------------------------------------------- C11 *)
\* the state the UI thread owns: the displayed frame and the pick text
ui_owned == <<view_frame, mouse_coord>>
\* C11: the displayed frame and the pick-result text change only in a step
\* in which the UI thread runs a posted callback; frame delivery on the
\* producer thread and a depth-pick completion on a render thread leave
\* both as they were and at most append one callback to the post queue.
C11_UiStateWrittenOnUiThread ==
  /\ [][ui_owned' # ui_owned => RunPosted]_vars
  /\ [][ProducerDeliver =>
          /\ UNCHANGED ui_owned
          /\ \/ post_queue' = post_queue
             \/ post_queue' =
                  Append(post_queue, [kind |-> "update", text |-> "frame"])]_vars
  /\ [][(\E depth_image \in DepthImages : DepthCallback(depth_image)) =>
          /\ UNCHANGED ui_owned
          /\ Len(post_queue') = Len(post_queue) + 1
          /\ SubSeq(post_queue', 1, Len(post_queue)) = post_queue
          /\ post_queue'[Len(post_queue')].kind = "update_label"]_vars
\* the UI thread has shown a delivered frame and a pick result, and a
\* further frame, posted by the producer, waits in the queue
C11_Witness ==
  /\ view_frame = "frame" /\ mouse_coord.kind = "coord"
  /\ post_queue # <<>> /\ Head(post_queue).kind = "update"

(* ----------------------------------------------------------------- C12 *)
\* C12 as stated: in every step in which on_toggle_capture writes
\* capture-enabled or on_window_close writes exit-requested, the UI thread
\* holds the CaptureGate mutex.
C12_AsStated ==
  [][(\/ \E is_on \in BOOLEAN : ToggleCaptureCall(is_on)
      \/ WindowCloseCall) => cv_owner = "ui"]_vars

(* ----------------------------------------------------------------- C13 *)
\* the events the claim lists as handled: (a) a modifier + primary
\* button-down inside the viewport, (b) a drag while Drawing, (c) a
\* button-up while Drawing
ListedAsHandled(event) ==
  \/ /\ event.type = "BUTTON_DOWN" /\ event.ctrl /\ event.left
     /\ InViewport(LocalX(event), LocalY(event))
  \/ event.type = "DRAG" /\ drawing_rectangle
  \/ event.type = "BUTTON_UP" /\ drawing_rectangle
\* C13 as stated: with capturing off and edit mode on, the handler returns
\* HANDLED for the listed events and IGNORED for every other event, a
\* modifier + primary button-down outside the viewport included.
C13_AsStated ==
  [][(~capturing /\ edit_mode) =>
       \A event \in MouseEvents :
         MouseEvent(event) =>
           ui_ret' = IF ListedAsHandled(event) THEN HANDLED ELSE IGNORED]_vars

(* ----------------------------------------------------------------- C14 *)
\* C14 as stated: in every state between handler invocations,
\* record-enabled is true only if capture-enabled is true.
C14_AsStated == ui_pc = "idle" => (flag_record => flag_capture)

(* ----------------------------------------------------------------- C15 *)
\* on_toggle_capture has returned and no other handler has run since
CaptureToggleReturned == ui_pc = "idle" /\ last_op = "on_toggle_capture"
\* C15: once on_toggle_capture(e) has returned, the view's capturing flag
\* and capture-enabled both equal e and the pick handler is installed
\* exactly when e is false; between handlers the pick handler is never
\* installed while capture-enabled is true.
C15_CaptureFlagsTogether ==
  /\ CaptureToggleReturned =>
       /\ capturing = ui_arg[1]
       /\ flag_capture = ui_arg[1]
       /\ pcdview_on_mouse = ~ui_arg[1]
  /\ ui_pc = "idle" => ~(pcdview_on_mouse /\ flag_capture)
\* capture has been enabled: both flags are set and the pick handler,
\* installed at construction, has been removed
C15_Witness ==
  /\ CaptureToggleReturned /\ ui_arg = <<TRUE>>
  /\ capturing /\ flag_capture /\ ~pcdview_on_mouse

(* ----------------------------------------------------------------- C16 *)
\* C16: from the call of on_toggle_model_init until the initialization it
\* runs has finished, model-init-requested keeps the value it had, whatever
\* the producer does meanwhile; the flag is written, with the handler's
\* argument, only by the handler's last step, after the initialization.
C16_InitBeforeFlag ==
  /\ [][(model_initializing \/ model_initializing') =>
          flag_model_init' = flag_model_init]_vars
  /\ [][flag_model_init' # flag_model_init => ModelInitFlag]_vars
  /\ [][ModelInitFlag =>
          ~model_initializing /\ flag_model_init' = ui_arg[1]]_vars
\* on_toggle_model_init(True) has returned with the flag set, the
\* initialization over and the producer in a loop iteration
C16_Witness ==
  /\ ui_pc = "idle" /\ last_op = "on_toggle_model_init" /\ ui_arg = <<TRUE>>
  /\ flag_model_init /\ ~model_initializing /\ InIteration

(* ----------------------------------------------------------------- C17 *)
\* the window is closed, its handler has returned, the producer has left
\* its loop: nothing is left to run
Terminated == flag_exit /\ ui_pc = "idle" /\ p_pc = "done"
\* C17: a handler that has been called returns, whatever the producer does,
\* parked or running; while a handler waits for the CaptureGate mutex, its
\* holder is the producer in the short section around its wait, never a
\* parked or terminated thread; and some step is possible in every state
\* until the program has terminated.
C17_HandlersReturn ==
  /\ (ui_pc # "idle") ~> (ui_pc = "idle")
  /\ [](ui_pc \in {"tc_lock", "wc_lock"} /\ cv_owner # None =>
          cv_owner = "producer" /\ p_pc \in {"check", "park", "unlock"})
  /\ []((ENABLED Next) \/ Terminated)
\* on_toggle_capture(True), called over a parked producer, has taken the
\* mutex, notified and returned, and the producer has the mutex again
C17_Witness ==
  /\ CaptureToggleReturned /\ ui_arg = <<TRUE>> /\ parked_at_enable
  /\ cv_owner = "producer"

(* ----------------------------------------------------------------- C19 *)
\* the pointer events of a rectangle gesture under way
GestureEvents == {e \in MouseEvents : e.type \in {"DRAG", "BUTTON_UP"}}
SeqsUpTo(S, n) == UNION {[1 .. m -> S] : m \in 0 .. n}

ColorShape == <<2, 3>>           \* color.shape[:2] = <<H, W>>
\* fx = fy = 2, cx = cy = 1
Intrinsic == <<<<2, 0, 1>>, <<0, 2, 1>>, <<0, 0, 1>>>>
\* the identity, and a translation by 2 along the optical axis
Extrinsics ==
  {<<<<1, 0, 0, 0>>, <<0, 1, 0, 0>>, <<0, 0, 1, 0>>, <<0, 0, 0, 1>>>>,
   <<<<1, 0, 0, 0>>, <<0, 1, 0, 0>>, <<0, 0, 1, 2>>, <<0, 0, 0, 1>>>>}
\* world points: in view, on a rounding tie, at and behind the camera
\* plane, beyond the right edge, one row above the top edge
WorldPoints ==
  {<<0, 0, 2>>, <<1, 0 - 1, 4>>, <<0, 0, 0>>, <<0, 0, 0 - 2>>, <<3, 0, 1>>,
   <<0, 0 - 1, 1>>}
\* detections: a 1 x 2 score field (tenths) and a class id
Detections ==
  {[field |-> <<<<1, 9>>>>, cls |-> 1], [field |-> <<<<9, 9>>>>, cls |-> 3],
   [field |-> <<<<5, 5>>>>, cls |-> 2], [field |-> <<<<10, 10>>>>, cls |-> 0]}

SegInputs ==
  {[color_shape |-> ColorShape, intrinsic |-> Intrinsic, extrinsic |-> e,
    points |-> ps, masks |-> [k \in 1 .. Len(ds) |-> ds[k].field],
    cls |-> [k \in 1 .. Len(ds) |-> ds[k].cls]] :
     e \in Extrinsics, ps \in SeqsUpTo(WorldPoints, MaxPoints),
     ds \in SeqsUpTo(Detections, MaxMasks)}

InitSeg == seg_in \in SegInputs /\ seg_out = Raised /\ seg_pc = "ready"

SegmentCall ==
  /\ seg_pc = "ready"
  /\ seg_out' = segment_pcd_from_2d(seg_in)
  /\ seg_pc' = "done"
  /\ UNCHANGED <<flags, gate, model_initializing, view, drawing_rectangle,
                 uithread, producer, render, history, seg_in>>

SegInit == InitController /\ InitSeg
SegNext == SegmentCall
SegSpec == SegInit /\ [][SegNext]_vars

\* what the claims say of one point, computed for that point alone
SegH == seg_in.color_shape[1]
SegW == seg_in.color_shape[2]
SegN == Len(seg_in.points)
SegK == Len(seg_in.masks)
Cam(i) == PointCam(seg_in.extrinsic, seg_in.points[i])
Pixel(i) == Project(seg_in.intrinsic, Cam(i))
Survives(i) ==
  /\ Cam(i)[3] > 0
  /\ Pixel(i)[1] >= 0 /\ Pixel(i)[1] < SegW
  /\ Pixel(i)[2] >= 0 /\ Pixel(i)[2] < SegH
ScoreAt(k, i) ==
  ResizedAt(seg_in.masks[k], Pixel(i)[2], Pixel(i)[1], SegH, SegW)
\* twice the score against 1: 2 * score > 1 is score > 0.5
AboveHalf(k, i) == 2 * ScoreAt(k, i) > 10 * ResizedDen(SegH, SegW)
ExactlyHalf(k, i) == 2 * ScoreAt(k, i) = 10 * ResizedDen(SegH, SegW)
IsMax(k, i) == \A j \in 1 .. SegK : ScoreAt(j, i) <= ScoreAt(k, i)
Returned == seg_pc = "done" /\ ~seg_out.raised
AllUnlabeled(n) == [i \in 1 .. n |-> Unlabeled]
Without(t, i) == [j \in 1 .. (Len(t) - 1) |-> IF j < i THEN t[j] ELSE t[j + 1]]

(* ------------------------------------------------------------------ C5 *)
\* C5: with no detections the call returns a label array of length N whose
\* entries are all -1.
C5_AsStated ==
  seg_pc = "done" /\ SegK = 0 =>
    ~seg_out.raised /\ seg_out.labels = AllUnlabeled(SegN)

(* ------------------------------------------------------------------ C6 *)
\* C6: with at least one detection the call returns N labels, and entry i
\* is the label of input point i: -1 if the point is filtered by depth,
\* bounds or threshold, else the class id of a mask that is maximal and
\* above 0.5 at the point's pixel.
C6_LabelsInPointOrder ==
  seg_pc = "done" /\ SegK >= 1 =>
    /\ ~seg_out.raised
    /\ Len(seg_out.labels) = SegN
    /\ \A i \in 1 .. SegN :
         IF Survives(i) /\ \E k \in 1 .. SegK : AboveHalf(k, i)
         THEN \E k \in 1 .. SegK :
                IsMax(k, i) /\ seg_out.labels[i] = seg_in.cls[k]
         ELSE seg_out.labels[i] = Unlabeled
\* a filtered point precedes a labelled one, and the labels keep that order
C6_Witness ==
  /\ Returned /\ SegN = 2
  /\ ~Survives(1) /\ Survives(2)
  /\ seg_out.labels[1] = Unlabeled /\ seg_out.labels[2] = 1

(* ------------------------------------------------------------------ C7 *)
\* C7: in a returned label array, a point at depth <= 0 or with its pixel
\* outside the image has label -1, and the other points' labels are those
\* of the call without that point.
C7_FilteredPointsUnlabeled ==
  Returned =>
    \A i \in 1 .. SegN :
      ~Survives(i) =>
        /\ seg_out.labels[i] = Unlabeled
        /\ LET rest == segment_pcd_from_2d(
                         [seg_in EXCEPT !.points = Without(seg_in.points, i)])
           IN ~rest.raised /\ rest.labels = Without(seg_out.labels, i)
\* a point behind the camera and one above the image, under a mask that
\* scores 1.0 everywhere, next to no other point
C7_Witness ==
  /\ Returned /\ SegN = 2
  /\ Cam(1)[3] <= 0
  /\ Cam(2)[3] > 0 /\ Pixel(2)[2] < 0
  /\ \E k \in 1 .. SegK : seg_in.masks[k] = <<<<10, 10>>>>
  /\ seg_out.labels = AllUnlabeled(2)

(* ------------------------------------------------------------------ C8 *)
\* C8: in a returned label array, a point that survives the depth and
\* bounds filters has a label other than -1, a class id of the detections,
\* exactly when the maximum score at its pixel is above 0.5.
C8_StrictThreshold ==
  Returned =>
    \A i \in 1 .. SegN :
      Survives(i) =>
        /\ seg_out.labels[i] # Unlabeled <=> \E k \in 1 .. SegK : AboveHalf(k, i)
        /\ seg_out.labels[i] # Unlabeled =>
             \E k \in 1 .. SegK : seg_out.labels[i] = seg_in.cls[k]
\* one point whose maximum score is exactly 0.5, left unlabeled, and one
\* above 0.5, labelled
C8_Witness ==
  /\ Returned /\ SegN = 2
  /\ Survives(1) /\ Survives(2)
  /\ \E k \in 1 .. SegK : IsMax(k, 1) /\ ExactlyHalf(k, 1)
  /\ seg_out.labels[1] = Unlabeled
  /\ seg_out.labels[2] # Unlabeled

(* ----------------------------------------------------------------- C18 *)
\* the lowest mask index among the masks that are maximal at point i's pixel
LowestMax(i) ==
  CHOOSE k \in 1 .. SegK : IsMax(k, i) /\ \A j \in 1 .. (k - 1) : ~IsMax(j, i)
\* C18: in a returned label array, a surviving point whose maximum score is
\* above 0.5 carries the class id of the maximal mask of lowest index; and
\* the result is the one value the inputs determine.
C18_LowestIndexWins ==
  /\ Returned =>
       \A i \in 1 .. SegN :
         Survives(i) /\ (\E k \in 1 .. SegK : AboveHalf(k, i)) =>
           seg_out.labels[i] = seg_in.cls[LowestMax(i)]
  /\ seg_pc = "done" => seg_out = segment_pcd_from_2d(seg_in)
\* two masks of different classes tie above 0.5 at the first point's pixel,
\* and the point carries the class of the first
C18_Witness ==
  /\ Returned /\ SegN >= 1 /\ SegK = 2 /\ Survives(1)
  /\ IsMax(1, 1) /\ IsMax(2, 1) /\ AboveHalf(1, 1)
  /\ seg_in.cls[1] # seg_in.cls[2]
  /\ seg_out.labels[1] = seg_in.cls[1]

====
